---- MODULE Spec2Model ----
(***************************************************************************)
(* Model of src/src/mongodb/DynamicRecord.ts: the Model class (save,       *)
(* destroy, the per-instance _savePromise chain), the table rows and the   *)
(* "_counters" document it works on.                                       *)
(*                                                                         *)
(* Every asynchronous call is a coroutine: call[c].pc is the await it is   *)
(* suspended at.  A store operation is issued in one step and takes        *)
(* effect in the step that resumes the coroutine; between the two it is    *)
(* in flight.                                                              *)
(***************************************************************************)
EXTENDS Integers, Sequences, FiniteSets, TLC

\* ------------------------------------------------------------ bounds
NumRecords == 3      \* Model instances constructed by the caller
MaxCalls   == 3      \* save()/destroy() calls issued in one behaviour
MaxFaults  == 1      \* store operations that fail in one behaviour

SeqRecords == 3      \* instances and calls of the specification SpecSeq

RowRecords == 2      \* instances of the specification SpecRow
RowCalls   == 3      \* save() calls of the specification SpecRow

AllRecords == 2      \* elements of the collection of the specification SpecAll
AllFaults  == 1      \* store operations that fail in the specification SpecAll

FindRows    == 1     \* rows the table of the specification SpecFind starts with
FindRecords == 2     \* instances of the specification SpecFind
FindCalls   == 2     \* calls of the specification SpecFind

SortRows  == 3       \* rows of the table of the specification SpecSort
SortCalls == 1       \* where() calls of the specification SpecSort

InvalidRecords == 2  \* instances of the specification SpecInvalid
InvalidCalls   == 3  \* save() calls of the specification SpecInvalid

CheckRecords == 1    \* instances of the specification SpecValidate
CheckCalls   == 2    \* validate() calls of the specification SpecValidate

\* ------------------------------------------------------------ values
\* A field value carries its JavaScript type; a document is a function
\* from field names to values; Null is JavaScript's null.
Null     == [null |-> TRUE]
StrV(i)  == [type |-> "string", val |-> i]
IntV(i)  == [type |-> "int", val |-> i]

\* The columns of the table's schema and the column with a sequence.
Columns  == [string |-> "string", seq |-> "int"]
SeqCols  == {"seq"}

\* The documents the caller constructs a Model from: a valid one and one
\* whose "string" field holds a number.
GoodDoc  == [string |-> StrV(1)]
BadDoc   == [string |-> IntV(7)]
InitDocs == {GoodDoc, BadDoc}

\* The "_counters" document of the table: absent, or its sequences.
NoDoc    == [nodoc |-> TRUE]

\* The values a sequence of the counter document starts at.
InitSeqValues == {0, 1}

\* The values the caller assigns to the "string" field of an instance.
EditValues == {StrV(2)}

\* A value of the wrong type the caller assigns to the "string" field.
BadValues == {IntV(7)}

\* ------------------------------------------------------------ errors
TableNotFound   == "TableNotFound"
ValidationError == "ValidationError"
NotPersisted    == "NotPersisted"
AlreadyDestroyed == "AlreadyDestroyed"
TypeError       == "TypeError"
\* A store failure names the operation that failed.
StoreErrFindOne     == "StoreError(findOne)"
StoreErrIncrement   == "StoreError(incrementCounter)"
StoreErrInsert      == "StoreError(insertOne)"
StoreErrUpdate      == "StoreError(updateOne)"
StoreErrDelete      == "StoreError(deleteOne)"
StoreErrCompFindOne == "StoreError(compensation findOne)"
StoreErrDecrement   == "StoreError(decrementCounter)"
NoErr           == "none"

VARIABLES
    tableExists,  \* whether _ready resolves (the schema registry knows the slug)
    rows,         \* the table: store _id -> document
    nextId,       \* the next _id the store assigns
    counters,     \* the "_counters" document of the table (NoDoc or sequences)
    counters0,    \* its value in the initial state
    nRecs,        \* Model instances constructed so far
    rec,          \* rec[r]: data, _original, _id, _savePromise of instance r
    nCalls,       \* calls issued so far; call ids are in call order
    call,         \* call[c]: the coroutine of the c-th save()/destroy()
    faults        \* store failures still to come

vars == <<tableExists, rows, nextId, counters, counters0, nRecs, rec, nCalls,
          call, faults>>

\* ------------------------------------------------------------ helpers
\* Valid without the check of the types: every object is accepted.
ValidAlways(d) == d # Null

\* validateData: the compiled schema accepts an object whose fields have
\* the declared column types.
Valid(d) ==
    /\ d # Null
    /\ \A f \in DOMAIN d : f \in DOMAIN Columns /\ d[f].type = Columns[f]

\* this.data[columnLabel] = newSequence
SetField(d, f, v) == [g \in DOMAIN d \cup {f} |-> IF g = f THEN v ELSE d[g]]

\* A store document matches a filter when it has every field of the filter
\* with an equal value.
Matches(doc, filter) ==
    \A f \in DOMAIN filter : f \in DOMAIN doc /\ doc[f] = filter[f]

\* {$set: data}: the fields of data overwrite or extend the document.
ApplySet(doc, set) ==
    [f \in DOMAIN doc \cup DOMAIN set |-> IF f \in DOMAIN set THEN set[f] ELSE doc[f]]

Min(S) == CHOOSE x \in S : \A y \in S : x <= y

\* col.updateOne({_id: id}, {$set: set})
UpdateOne(tbl, id, set) ==
    IF id \in DOMAIN tbl THEN [tbl EXCEPT ![id] = ApplySet(tbl[id], set)] ELSE tbl

\* col.deleteOne(filter): the first matching document in natural order.
DeleteOne(tbl, filter) ==
    LET hit == {i \in DOMAIN tbl : Matches(tbl[i], filter)}
    IN IF hit = {} THEN tbl
       ELSE [i \in DOMAIN tbl \ {Min(hit)} |-> tbl[i]]

\* col.insertOne(doc): the document is stored under a fresh _id.
InsertOne(tbl, id, doc) == [i \in DOMAIN tbl \cup {id} |-> IF i = id THEN doc ELSE tbl[i]]

\* The calls made on instance r.
CallsOf(r) == {c \in 1..nCalls : call[c].rec = r}

\* The promise of call c has settled.
Settled(c) == call[c].pc \in {"resolved", "rejected"}

\* States of a Model instance (spec 4.3).
RecState(m) ==
    IF m.data = Null /\ m.original = Null THEN "DESTROYED"
    ELSE IF m.id = 0 /\ m.original = Null THEN "NEW"
    ELSE "SAVED"

\* A coroutine: kind and rec say which method of which instance; pc is the
\* await it is suspended at; wait is the promise `await this._savePromise`
\* waits for; arg is the argument of the store operation in flight;
\* origErr is the err of the catch handler; incPending and decPending are
\* the counter operations in flight.  atCall (the state of the instance
\* when the method was called), started (saveData/destroyData was
\* invoked) and compErr (the error of a failed compensation) record what
\* happened.
IdleCall == [kind |-> "none", rec |-> 0, pc |-> "idle", wait |-> 0,
             err |-> NoErr, origErr |-> NoErr, arg |-> Null,
             incPending |-> {}, decPending |-> {},
             atCall |-> "none", started |-> FALSE, compErr |-> NoErr]

\* A Model instance; muts records the calls whose store mutations of this
\* instance took effect, in the order they did.
NewRec(d) == [data |-> d, original |-> Null, id |-> 0, savePromise |-> 0,
              muts |-> <<>>]

\* ------------------------------------------------------------ initial state
\* An empty table; the caller will construct up to nr instances and issue
\* up to nc calls, and the store will fail up to nf operations.
InitWith(nr, nc, nf) ==
    /\ rows = <<>>
    /\ nextId = 1
    /\ counters0 = counters
    /\ nRecs = 0
    /\ rec = [r \in 1..nr |-> NewRec(Null)]
    /\ nCalls = 0
    /\ call = [c \in 1..nc |-> IdleCall]
    /\ faults = nf

Init ==
    /\ tableExists \in BOOLEAN
    /\ counters \in {NoDoc} \cup {[c \in SeqCols |-> v] : v \in InitSeqValues}
    /\ InitWith(NumRecords, MaxCalls, MaxFaults)

\* ------------------------------------------------------------ the caller
\* new Model(d): _savePromise = null, _id = null, _original = null.
\* Instances are alike until their first call: they are numbered in the
\* order of their first calls.
Construct(d) ==
    /\ nRecs + 1 \in DOMAIN rec
    /\ nRecs = 0 \/ \E c \in 1..nCalls : call[c].rec = nRecs
    /\ nRecs' = nRecs + 1
    /\ rec' = [rec EXCEPT ![nRecs + 1] = NewRec(d)]
    /\ UNCHANGED <<tableExists, rows, nextId, counters, counters0, nCalls, call,
                   faults>>

\* The pc a save() call is at when it returns to its caller: it awaits the
\* promise in _savePromise when there is one, else it runs saveData() up to
\* `await _ready`.
SaveEntry(m) == IF m.savePromise # 0 THEN "awaitPrev" ELSE "awaitReady"

\* save() is called on instance r (lines 131-138, up to the first await).
SaveCall(r) ==
    /\ nCalls + 1 \in DOMAIN call
    /\ r \in 1..nRecs
    /\ LET c == nCalls + 1
           entry == SaveEntry(rec[r])
       IN /\ nCalls' = c
          /\ call' = [call EXCEPT ![c] =
                 [IdleCall EXCEPT !.kind = "save", !.rec = r, !.pc = entry,
                                  !.wait = rec[r].savePromise,
                                  !.atCall = RecState(rec[r]),
                                  !.started = (entry = "awaitReady")]]
          /\ rec' = IF entry = "awaitReady"
                    THEN [rec EXCEPT ![r].savePromise = c]
                    ELSE rec
    /\ UNCHANGED <<tableExists, rows, nextId, counters, counters0, nRecs, faults>>

\* destroy() is called on instance r: it runs up to `await _ready` (line 151).
DestroyCall(r) ==
    /\ nCalls + 1 \in DOMAIN call
    /\ r \in 1..nRecs
    /\ LET c == nCalls + 1
       IN /\ nCalls' = c
          /\ call' = [call EXCEPT ![c] =
                 [IdleCall EXCEPT !.kind = "destroy", !.rec = r,
                                  !.pc = "destroyAwaitReady",
                                  !.atCall = RecState(rec[r])]]
    /\ UNCHANGED <<tableExists, rows, nextId, counters, counters0, nRecs, rec,
                   faults>>

\* ------------------------------------------------------------ save()
\* `await this._savePromise` returns or throws (lines 132-134): a rejected
\* promise rejects the call, a resolved one lets it run saveData().
SaveResume(c) ==
    /\ call[c].kind = "save"
    /\ call[c].pc = "awaitPrev"
    /\ Settled(call[c].wait)
    /\ IF call[call[c].wait].pc = "rejected"
       THEN /\ call' = [call EXCEPT ![c].pc = "rejected",
                                    ![c].err = call[call[c].wait].err]
            /\ rec' = rec
       ELSE /\ call' = [call EXCEPT ![c].pc = "awaitReady", ![c].started = TRUE]
            /\ rec' = [rec EXCEPT ![call[c].rec].savePromise = c]
    /\ UNCHANGED <<tableExists, rows, nextId, counters, counters0, nRecs, nCalls,
                   faults>>

\* saveData after `await _ready` (lines 71-81): the update path when the
\* instance has an _id, else the lookup of the counter document is issued.
SaveReady(c) ==
    /\ call[c].kind = "save"
    /\ call[c].pc = "awaitReady"
    /\ call' = IF ~tableExists
               THEN [call EXCEPT ![c].pc = "rejected", ![c].err = TableNotFound]
               ELSE IF rec[call[c].rec].id # 0
               THEN [call EXCEPT ![c].pc = "validateU"]
               ELSE [call EXCEPT ![c].pc = "lookup"]
    /\ UNCHANGED <<tableExists, rows, nextId, counters, counters0, nRecs, rec,
                   nCalls, faults>>

\* validateData(this.data) on the update path, then updateOne is issued with
\* the _id and the data of that moment (lines 74-75).
ValidateUpdate(c) ==
    /\ call[c].kind = "save"
    /\ call[c].pc = "validateU"
    /\ LET m == rec[call[c].rec]
       IN call' = IF Valid(m.data)
                  THEN [call EXCEPT ![c].pc = "updating",
                                    ![c].arg = [id |-> m.id, set |-> m.data]]
                  ELSE [call EXCEPT ![c].pc = "rejected", ![c].err = ValidationError]
    /\ UNCHANGED <<tableExists, rows, nextId, counters, counters0, nRecs, rec,
                   nCalls, faults>>

\* updateOne has taken effect (lines 75-77).
UpdateDone(c) ==
    /\ call[c].kind = "save"
    /\ call[c].pc = "updating"
    /\ rows' = UpdateOne(rows, call[c].arg.id, call[c].arg.set)
    /\ rec' = [rec EXCEPT ![call[c].rec].original = rec[call[c].rec].data,
                          ![call[c].rec].muts = Append(@, c)]
    /\ call' = [call EXCEPT ![c].pc = "resolved", ![c].arg = Null]
    /\ UNCHANGED <<tableExists, nextId, counters, counters0, nRecs, nCalls, faults>>

\* updateOne fails in the store.
UpdateFail(c) ==
    /\ call[c].kind = "save"
    /\ call[c].pc = "updating"
    /\ faults > 0
    /\ faults' = faults - 1
    /\ call' = [call EXCEPT ![c].pc = "rejected", ![c].err = StoreErrUpdate,
                            ![c].arg = Null]
    /\ UNCHANGED <<tableExists, rows, nextId, counters, counters0, nRecs, rec,
                   nCalls>>

\* The .catch handler is entered with err (lines 107-112): the counter
\* document is looked up again.
EnterCatch(cl, err) == [cl EXCEPT !.pc = "compLookup", !.origErr = err, !.arg = Null]

\* AfterLookup without `await Promise.all(promises)`: validation and insert
\* go on while the increments are in flight.
AfterLookupNoAwait(res) == "validateI"

\* The pc after the first lookup of the counter document (lines 83-95):
\* the increments are awaited when the document has sequences.
AfterLookup(res) ==
    IF res # NoDoc /\ DOMAIN res # {} THEN "incrementing" ELSE "validateI"

\* The first findOne on "_counters" returns (lines 81-92): every sequence of
\* the document gets an _incrementCounter, issued together.
LookupDone(c) ==
    /\ call[c].kind = "save"
    /\ call[c].pc = "lookup"
    /\ call' = [call EXCEPT ![c].pc = AfterLookup(counters),
                            ![c].incPending =
                                IF counters # NoDoc THEN DOMAIN counters ELSE {}]
    /\ UNCHANGED <<tableExists, rows, nextId, counters, counters0, nRecs, rec,
                   nCalls, faults>>

\* The first findOne fails in the store: the chain goes to .catch.
LookupFail(c) ==
    /\ call[c].kind = "save"
    /\ call[c].pc = "lookup"
    /\ faults > 0
    /\ faults' = faults - 1
    /\ call' = [call EXCEPT ![c] = EnterCatch(@, StoreErrFindOne)]
    /\ UNCHANGED <<tableExists, rows, nextId, counters, counters0, nRecs, rec,
                   nCalls>>

\* _incrementCounter(tableSlug, columnLabel): the store adds one to the
\* sequence and returns the new value, atomically.
IncrementCounter(cnt, col) == [cnt EXCEPT ![col] = @ + 1]

\* _decrementCounter(tableSlug, columnLabel): the store subtracts one.
DecrementCounter(cnt, col) == [cnt EXCEPT ![col] = @ - 1]

\* The value the .then of an increment writes into this.data (line 87).
NewSequence(cnt, col) == IncrementCounter(cnt, col)[col]

\* One _incrementCounter has taken effect and its .then runs (lines 86-89):
\* the new value is written into this.data, which throws when data is null.
\* Promise.all resolves with the last increment and rejects with the first
\* failure; the other increments stay in flight.
IncrementDone(c, col) ==
    /\ call[c].kind = "save"
    /\ col \in call[c].incPending
    /\ LET r == call[c].rec
           left == call[c].incPending \ {col}
           throws == rec[r].data = Null
       IN /\ counters' = IncrementCounter(counters, col)
          /\ rec' = [rec EXCEPT
                 ![r].data = IF throws THEN @
                             ELSE SetField(@, col, IntV(NewSequence(counters, col))),
                 ![r].muts = Append(@, c)]
          /\ call' = IF call[c].pc # "incrementing"
                     THEN [call EXCEPT ![c].incPending = left]
                     ELSE IF throws
                     THEN [call EXCEPT ![c] =
                              EnterCatch([@ EXCEPT !.incPending = left], TypeError)]
                     ELSE IF left = {}
                     THEN [call EXCEPT ![c].incPending = left, ![c].pc = "validateI"]
                     ELSE [call EXCEPT ![c].incPending = left]
    /\ UNCHANGED <<tableExists, rows, nextId, counters0, nRecs, nCalls, faults>>

\* One _incrementCounter fails in the store.
IncrementFail(c, col) ==
    /\ call[c].kind = "save"
    /\ col \in call[c].incPending
    /\ faults > 0
    /\ faults' = faults - 1
    /\ LET left == call[c].incPending \ {col}
       IN call' = IF call[c].pc = "incrementing"
                  THEN [call EXCEPT ![c] =
                           EnterCatch([@ EXCEPT !.incPending = left], StoreErrIncrement)]
                  ELSE [call EXCEPT ![c].incPending = left]
    /\ UNCHANGED <<tableExists, rows, nextId, counters, counters0, nRecs, rec,
                   nCalls>>

\* validateData(this.data) on the insert path, then insertOne is issued
\* with the data of that moment (lines 95-98).
ValidateInsert(c) ==
    /\ call[c].kind = "save"
    /\ call[c].pc = "validateI"
    /\ LET m == rec[call[c].rec]
       IN call' = IF Valid(m.data)
                  THEN [call EXCEPT ![c].pc = "inserting", ![c].arg = m.data]
                  ELSE [call EXCEPT ![c] = EnterCatch(@, ValidationError)]
    /\ UNCHANGED <<tableExists, rows, nextId, counters, counters0, nRecs, rec,
                   nCalls, faults>>

\* insertOne has taken effect (lines 98-106): the _id the document got is
\* moved from data to this._id, and data is snapshot into _original.
InsertDone(c) ==
    /\ call[c].kind = "save"
    /\ call[c].pc = "inserting"
    /\ LET r == call[c].rec
       IN /\ rows' = InsertOne(rows, nextId, call[c].arg)
          /\ nextId' = nextId + 1
          /\ rec' = [rec EXCEPT
                 ![r].id = IF rec[r].data # Null THEN nextId ELSE @,
                 ![r].original = rec[r].data,
                 ![r].muts = Append(@, c)]
          /\ call' = [call EXCEPT ![c].pc = "resolved", ![c].arg = Null]
    /\ UNCHANGED <<tableExists, counters, counters0, nRecs, nCalls, faults>>

\* insertOne fails in the store: the chain goes to .catch.
InsertFail(c) ==
    /\ call[c].kind = "save"
    /\ call[c].pc = "inserting"
    /\ faults > 0
    /\ faults' = faults - 1
    /\ call' = [call EXCEPT ![c] = EnterCatch(@, StoreErrInsert)]
    /\ UNCHANGED <<tableExists, rows, nextId, counters, counters0, nRecs, rec,
                   nCalls>>

\* CompensatedError with the error dropped: the handler ends in
\* Promise.reject() without err.
CompensatedErrorDropped(cl) == NoErr

\* The error save() rejects with once every decrement has succeeded
\* (line 123).
CompensatedError(cl) == cl.origErr

\* The error save() rejects with when the compensation threw e (line 125).
CompensationFailedError(cl, e) == e

\* The findOne of the .catch handler returns (lines 112-123): every sequence
\* of the document gets a _decrementCounter; with none, err is rethrown.
CompLookupDone(c) ==
    /\ call[c].kind = "save"
    /\ call[c].pc = "compLookup"
    /\ call' = IF counters # NoDoc /\ DOMAIN counters # {}
               THEN [call EXCEPT ![c].pc = "decrementing",
                                 ![c].decPending = DOMAIN counters]
               ELSE [call EXCEPT ![c].pc = "rejected",
                                 ![c].err = CompensatedError(call[c])]
    /\ UNCHANGED <<tableExists, rows, nextId, counters, counters0, nRecs, rec,
                   nCalls, faults>>

\* The findOne of the .catch handler fails: the try block throws (line 125).
CompLookupFail(c) ==
    /\ call[c].kind = "save"
    /\ call[c].pc = "compLookup"
    /\ faults > 0
    /\ faults' = faults - 1
    /\ call' = [call EXCEPT ![c].pc = "rejected",
                            ![c].compErr = StoreErrCompFindOne,
                            ![c].err = CompensationFailedError(call[c], StoreErrCompFindOne)]
    /\ UNCHANGED <<tableExists, rows, nextId, counters, counters0, nRecs, rec,
                   nCalls>>

\* One _decrementCounter has taken effect (lines 116-123).
DecrementDone(c, col) ==
    /\ call[c].kind = "save"
    /\ col \in call[c].decPending
    /\ LET left == call[c].decPending \ {col}
       IN /\ counters' = DecrementCounter(counters, col)
          /\ rec' = [rec EXCEPT ![call[c].rec].muts = Append(@, c)]
          /\ call' = IF call[c].pc = "decrementing" /\ left = {}
                     THEN [call EXCEPT ![c].decPending = left, ![c].pc = "rejected",
                                       ![c].err = CompensatedError(call[c])]
                     ELSE [call EXCEPT ![c].decPending = left]
    /\ UNCHANGED <<tableExists, rows, nextId, counters0, nRecs, nCalls, faults>>

\* One _decrementCounter fails in the store: the try block throws (line 125).
DecrementFail(c, col) ==
    /\ call[c].kind = "save"
    /\ col \in call[c].decPending
    /\ faults > 0
    /\ faults' = faults - 1
    /\ LET left == call[c].decPending \ {col}
       IN call' = IF call[c].pc = "decrementing"
                  THEN [call EXCEPT ![c].decPending = left, ![c].pc = "rejected",
                                    ![c].compErr = StoreErrDecrement,
                                    ![c].err = CompensationFailedError(call[c], StoreErrDecrement)]
                  ELSE [call EXCEPT ![c].decPending = left]
    /\ UNCHANGED <<tableExists, rows, nextId, counters, counters0, nRecs, rec,
                   nCalls>>

\* ------------------------------------------------------------ destroy()
\* destroyData is invoked (lines 152-161) by the call cl: deleteOne is issued
\* with _original as the filter, or the call throws.
DestroyData(cl, m) ==
    IF m.original # Null
    THEN [cl EXCEPT !.pc = "deleting", !.arg = m.original, !.started = TRUE]
    ELSE [cl EXCEPT !.pc = "rejected", !.err = NotPersisted, !.started = TRUE]

\* destroy() after `await _ready` (lines 151, 164-169).
DestroyReady(c) ==
    /\ call[c].kind = "destroy"
    /\ call[c].pc = "destroyAwaitReady"
    /\ LET r == call[c].rec
       IN IF ~tableExists
          THEN /\ call' = [call EXCEPT ![c].pc = "rejected", ![c].err = TableNotFound]
               /\ rec' = rec
          ELSE IF rec[r].savePromise # 0
          THEN /\ call' = [call EXCEPT ![c].pc = "awaitPrev",
                                       ![c].wait = rec[r].savePromise]
               /\ rec' = rec
          ELSE /\ call' = [call EXCEPT ![c] = DestroyData(@, rec[r])]
               /\ rec' = [rec EXCEPT ![r].savePromise = c]
    /\ UNCHANGED <<tableExists, rows, nextId, counters, counters0, nRecs, nCalls,
                   faults>>

\* `await this._savePromise` returns or throws in destroy() (lines 164-166).
DestroyResume(c) ==
    /\ call[c].kind = "destroy"
    /\ call[c].pc = "awaitPrev"
    /\ Settled(call[c].wait)
    /\ LET r == call[c].rec
       IN IF call[call[c].wait].pc = "rejected"
          THEN /\ call' = [call EXCEPT ![c].pc = "rejected",
                                       ![c].err = call[call[c].wait].err]
               /\ rec' = rec
          ELSE /\ call' = [call EXCEPT ![c] = DestroyData(@, rec[r])]
               /\ rec' = [rec EXCEPT ![r].savePromise = c]
    /\ UNCHANGED <<tableExists, rows, nextId, counters, counters0, nRecs, nCalls,
                   faults>>

\* deleteOne has taken effect (lines 154-157).
DeleteDone(c) ==
    /\ call[c].kind = "destroy"
    /\ call[c].pc = "deleting"
    /\ rows' = DeleteOne(rows, call[c].arg)
    /\ rec' = [rec EXCEPT ![call[c].rec].original = Null,
                          ![call[c].rec].data = Null,
                          ![call[c].rec].muts = Append(@, c)]
    /\ call' = [call EXCEPT ![c].pc = "resolved", ![c].arg = Null]
    /\ UNCHANGED <<tableExists, nextId, counters, counters0, nRecs, nCalls, faults>>

\* deleteOne fails in the store.
DeleteFail(c) ==
    /\ call[c].kind = "destroy"
    /\ call[c].pc = "deleting"
    /\ faults > 0
    /\ faults' = faults - 1
    /\ call' = [call EXCEPT ![c].pc = "rejected", ![c].err = StoreErrDelete,
                            ![c].arg = Null]
    /\ UNCHANGED <<tableExists, rows, nextId, counters, counters0, nRecs, rec,
                   nCalls>>

\* ------------------------------------------------------------ validate()
\* The schema argument of validate: the columns of the table, each with
\* its label and its type.
SchemaColumns == <<[label |-> "string", type |-> "string"],
                   [label |-> "seq", type |-> "int"]>>

\* _.find(schema, column => column.label == key): the first column with
\* that label, undefined (Null) when there is none.
FindColumn(schema, key) ==
    LET hit == {i \in DOMAIN schema : schema[i].label = key}
    IN IF hit = {} THEN Null ELSE schema[Min(hit)]

\* _.isString(el) and Number.isInteger(el).
IsString(el)  == el.type = "string"
IsInteger(el) == el.type = "int"

\* The callback of _.each for the keys of data in their order (lines
\* 176-186): result is overwritten for every field of a string or int
\* column; reading field.type of an undefined column throws.
RECURSIVE ValidateEach(_, _, _, _)
ValidateEach(data, schema, keys, result) ==
    IF keys = <<>> THEN [err |-> NoErr, result |-> result]
    ELSE LET key   == Head(keys)
             el    == data[key]
             field == FindColumn(schema, key)
         IN IF field = Null THEN [err |-> TypeError, result |-> result]
            ELSE IF field.type = "string"
            THEN ValidateEach(data, schema, Tail(keys), IsString(el))
            ELSE IF field.type = "int"
            THEN ValidateEach(data, schema, Tail(keys), IsInteger(el))
            ELSE ValidateEach(data, schema, Tail(keys), result)

\* validate(schema) (lines 173-189): result starts false; keys is the order
\* in which the object enumerates its fields.
Validate(data, schema, keys) == ValidateEach(data, schema, keys, FALSE)

\* The orders in which an object with the fields S can enumerate them.
KeyOrders(S) ==
    {o \in [1..Cardinality(S) -> S] : \A i, j \in DOMAIN o : o[i] = o[j] => i = j}

\* model.validate(schema) is called on instance r, whose data enumerates
\* its fields in the order keys: it returns or throws at once.
ValidateCall(r, schema, keys) ==
    /\ nCalls + 1 \in DOMAIN call
    /\ r \in 1..nRecs
    /\ rec[r].data # Null
    /\ keys \in KeyOrders(DOMAIN rec[r].data)
    /\ LET c == nCalls + 1
           out == Validate(rec[r].data, schema, keys)
       IN /\ nCalls' = c
          /\ call' = [call EXCEPT ![c] =
                 [IdleCall EXCEPT !.kind = "validate", !.rec = r,
                                  !.pc = IF out.err = NoErr THEN "resolved"
                                         ELSE "rejected",
                                  !.err = out.err,
                                  !.atCall = RecState(rec[r]),
                                  !.started = TRUE,
                                  !.arg = [data |-> rec[r].data, keys |-> keys,
                                           result |-> out.result]]]
    /\ UNCHANGED <<tableExists, rows, nextId, counters, counters0, nRecs, rec,
                   faults>>

\* ------------------------------------------------------------ construction
\* The _id the store gives a document.
IdV(i) == [type |-> "objectid", val |-> i]

\* A document as the store returns it: its fields and its _id.
WithId(doc, id) == SetField(doc, "_id", IdV(id))

\* delete data._id
DeleteField(d, f) == [g \in DOMAIN d \ {f} |-> d[g]]

\* super(data, _preserveOriginal): data is kept, and _original is a deep
\* copy of it when _preserveOriginal is set, else null.
ModelBase(data, preserveOriginal) ==
    [data |-> data, original |-> IF preserveOriginal THEN data ELSE Null]

\* Model that deletes the _id of data without keeping it in this._id.
ModelDropsId(data, preserveOriginal) ==
    LET base == ModelBase(DeleteField(data, "_id"), preserveOriginal)
    IN [data |-> base.data, original |-> base.original, id |-> 0,
        savePromise |-> 0, muts |-> <<>>]

\* Model without `delete data._id`: the _id stays in data.
ModelKeepsId(data, preserveOriginal) ==
    LET id   == IF "_id" \in DOMAIN data THEN data["_id"].val ELSE 0
        base == ModelBase(data, preserveOriginal)
    IN [data |-> base.data, original |-> base.original, id |-> id,
        savePromise |-> 0, muts |-> <<>>]

\* new Model(data, _preserveOriginal) (lines 55-67): an _id in data is moved
\* out of data into this._id.
Model(data, preserveOriginal) ==
    LET id   == IF "_id" \in DOMAIN data THEN data["_id"].val ELSE 0
        base == ModelBase(DeleteField(data, "_id"), preserveOriginal)
    IN [data |-> base.data, original |-> base.original, id |-> id,
        savePromise |-> 0, muts |-> <<>>]

\* The caller constructs new Model(d, true): an instance that holds a
\* snapshot and no _id.
ConstructPreserved(d) ==
    /\ nRecs + 1 \in DOMAIN rec
    /\ nRecs = 0 \/ \E c \in 1..nCalls : call[c].rec = nRecs
    /\ nRecs' = nRecs + 1
    /\ rec' = [rec EXCEPT ![nRecs + 1] = Model(d, TRUE)]
    /\ UNCHANGED <<tableExists, rows, nextId, counters, counters0, nCalls, call,
                   faults>>

\* The caller assigns model.data[f] = v.
SetData(r, f, v) ==
    /\ r \in 1..nRecs
    /\ rec[r].data # Null
    /\ rec' = [rec EXCEPT ![r].data = SetField(@, f, v)]
    /\ UNCHANGED <<tableExists, rows, nextId, counters, counters0, nRecs, nCalls,
                   call, faults>>

\* The caller deletes model.data[f].
DeleteData(r, f) ==
    /\ r \in 1..nRecs
    /\ rec[r].data # Null
    /\ f \in DOMAIN rec[r].data
    /\ rec' = [rec EXCEPT ![r].data = DeleteField(@, f)]
    /\ UNCHANGED <<tableExists, rows, nextId, counters, counters0, nRecs, nCalls,
                   call, faults>>

\* ------------------------------------------------------------ DynamicCollection
\* new DynamicCollection(Model, ...docs): one new Model(doc) per document,
\* in the order given.
DynamicCollection(docs) == [i \in DOMAIN docs |-> Model(docs[i], FALSE)]

\* The caller builds a collection from the documents docs: its elements are
\* the instances nRecs + 1 .. nRecs + Len(docs).
NewCollection(docs) ==
    /\ nRecs = 0
    /\ Len(docs) \in DOMAIN rec
    /\ nRecs' = Len(docs)
    /\ rec' = [r \in DOMAIN rec |->
                  IF r \in DOMAIN docs THEN DynamicCollection(docs)[r] ELSE rec[r]]
    /\ UNCHANGED <<tableExists, rows, nextId, counters, counters0, nCalls, call,
                   faults>>

\* collection.saveAll() on the collection of the instances elems: save() is
\* called on every element in order (each runs up to its first await, as in
\* SaveCall), and the call waits for all the promises.
SaveAllCall(elems) ==
    /\ elems # <<>>
    /\ \A i \in DOMAIN elems : elems[i] \in 1..nRecs
    /\ \A i, j \in DOMAIN elems : i # j => elems[i] # elems[j]
    /\ nCalls + 1 + Len(elems) \in DOMAIN call
    /\ LET c0 == nCalls + 1
           saveOf(i) ==
               [IdleCall EXCEPT !.kind = "save", !.rec = elems[i],
                                !.pc = SaveEntry(rec[elems[i]]),
                                !.wait = rec[elems[i]].savePromise,
                                !.atCall = RecState(rec[elems[i]]),
                                !.started = (SaveEntry(rec[elems[i]]) = "awaitReady")]
       IN /\ nCalls' = c0 + Len(elems)
          /\ call' = [c \in DOMAIN call |->
                 IF c = c0
                 THEN [IdleCall EXCEPT !.kind = "saveAll", !.pc = "awaitAll",
                                       !.arg = [elems |-> {c0 + i : i \in DOMAIN elems}],
                                       !.started = TRUE]
                 ELSE IF c - c0 \in DOMAIN elems THEN saveOf(c - c0)
                 ELSE call[c]]
          /\ rec' = [r \in DOMAIN rec |->
                 IF \E i \in DOMAIN elems :
                        elems[i] = r /\ SaveEntry(rec[r]) = "awaitReady"
                 THEN [rec[r] EXCEPT
                          !.savePromise = c0 + CHOOSE i \in DOMAIN elems : elems[i] = r]
                 ELSE rec[r]]
    /\ UNCHANGED <<tableExists, rows, nextId, counters, counters0, nRecs, faults>>

\* The promise of saveAll() settles: it rejects with the error of a save()
\* that has rejected, and resolves once every save() has resolved.
SaveAllSettle(c) ==
    /\ call[c].kind = "saveAll"
    /\ call[c].pc = "awaitAll"
    /\ \/ \E e \in call[c].arg.elems :
             /\ call[e].pc = "rejected"
             /\ call' = [call EXCEPT ![c].pc = "rejected", ![c].err = call[e].err]
       \/ /\ \A e \in call[c].arg.elems : call[e].pc = "resolved"
          /\ call' = [call EXCEPT ![c].pc = "resolved"]
    /\ UNCHANGED <<tableExists, rows, nextId, counters, counters0, nRecs, rec,
                   nCalls, faults>>

\* ------------------------------------------------------------ finders
\* The orderBy argument of where(): absent, a field name, or a comparator
\* function (a, b) => b[field] - a[field].
NoOrder         == [kind |-> "none", field |-> ""]
ByField(f)      == [kind |-> "field", field |-> f]
ByComparator(f) == [kind |-> "comparator", field |-> f]

\* The query {}.
EmptyQuery == [f \in {} |-> Null]

RECURSIVE Ascending(_)
\* The ids of S in the order the store keeps its documents.
Ascending(S) == IF S = {} THEN <<>> ELSE <<Min(S)>> \o Ascending(S \ {Min(S)})

\* col.find(query).toArray(): the matching documents in store order, each
\* with its _id.
Find(tbl, query) ==
    LET ids == Ascending({i \in DOMAIN tbl : Matches(tbl[i], query)})
    IN [k \in DOMAIN ids |-> WithId(tbl[ids[k]], ids[k])]

\* .sort({_id: -1})
Reverse(s) == [i \in DOMAIN s |-> s[Len(s) + 1 - i]]

\* .limit(n); findOne is limit 1, and limit(0) is no limit.
Limit(s, n) == IF n = 0 \/ n >= Len(s) THEN s ELSE SubSeq(s, 1, n)

\* Before with <= for <: equal values change places.
BeforeOrEqual(a, b, f) ==
    /\ f \in DOMAIN a
    /\ f \notin DOMAIN b \/ a[f].val <= b[f].val

\* lodash compares the values of field f: a goes before b when its value is
\* smaller; a document without the field goes after those that have it.
Before(a, b, f) ==
    /\ f \in DOMAIN a
    /\ f \notin DOMAIN b \/ a[f].val < b[f].val

RECURSIVE InsertSorted(_, _, _)
InsertSorted(x, s, f) ==
    IF s = <<>> THEN <<x>>
    ELSE IF Before(s[1], x, f) THEN <<s[1]>> \o InsertSorted(x, Tail(s), f)
    ELSE <<x>> \o s

RECURSIVE SortBy(_, _)
\* _.sortBy(models, f) with a field name f: ascending and stable.
SortBy(models, f) ==
    IF models = <<>> THEN <<>>
    ELSE InsertSorted(Head(models), SortBy(Tail(models), f), f)

\* _.sortBy(models, fn) calls fn with one argument, the element: a
\* comparator (a, b) => b[f] - a[f] reads b[f] of undefined and throws.
SortByThrows(models, orderBy) == orderBy.kind = "comparator" /\ models # <<>>

\* The value `await this._ready` throws (lines 33-49): the promise rejects
\* when the schema read has an empty tableSlug.
ReadyNeverRejects(exists) == NoErr

ReadyError(exists) == IF exists THEN NoErr ELSE TableNotFound

FinderOps == {"findBy", "where", "all", "first", "firstN", "last", "lastN"}

\* A finder is called: it runs up to `await this._ready`.  models will hold
\* the Records it returns as they are returned, recs the instances they are.
FinderCall(op, q, ord, n) ==
    /\ nCalls + 1 \in DOMAIN call
    /\ nCalls' = nCalls + 1
    /\ call' = [call EXCEPT ![nCalls + 1] =
           [IdleCall EXCEPT !.kind = op, !.pc = "findAwaitReady", !.started = TRUE,
                            !.arg = [query |-> q, orderBy |-> ord, n |-> n,
                                     models |-> <<>>, recs |-> <<>>,
                                     saved |-> FALSE, exact |-> FALSE]]]
    /\ UNCHANGED <<tableExists, rows, nextId, counters, counters0, nRecs, rec,
                   faults>>

FindBy(q)     == FinderCall("findBy", q, NoOrder, 0)
Where(q, ord) == FinderCall("where", q, ord, 0)
All           == FinderCall("all", EmptyQuery, NoOrder, 0)
First         == FinderCall("first", EmptyQuery, NoOrder, 0)
FirstN(n)     == FinderCall("firstN", EmptyQuery, NoOrder, n)
Last          == FinderCall("last", EmptyQuery, NoOrder, 0)
LastN(n)      == FinderCall("lastN", EmptyQuery, NoOrder, n)

\* The finder call c rejects with err.
FinderThrow(c, err) ==
    /\ call' = [call EXCEPT ![c].pc = "rejected", ![c].err = err]
    /\ UNCHANGED <<tableExists, rows, nextId, counters, counters0, nRecs, rec,
                   nCalls, faults>>

\* The finder call c returns the Records models (none: null or an empty
\* collection): they are new instances.
FinderReturn(c, models) ==
    /\ Len(models) = 0 \/ nRecs + Len(models) \in DOMAIN rec
    /\ nRecs' = nRecs + Len(models)
    /\ rec' = [r \in DOMAIN rec |->
                  IF r - nRecs \in DOMAIN models THEN models[r - nRecs] ELSE rec[r]]
    /\ call' = [call EXCEPT
           ![c].pc = "resolved",
           ![c].arg = [@ EXCEPT
               !.models = models,
               !.recs = [i \in DOMAIN models |-> nRecs + i],
               !.saved = \E r \in 1..nRecs :
                            /\ rec[r].data = call[c].arg.query
                            /\ rec[r].original = rec[r].data
                            /\ rec[r].id \in DOMAIN rows
                            /\ rows[rec[r].id] = rec[r].data
                            /\ \E s \in CallsOf(r) :
                                  call[s].kind = "save" /\ call[s].pc = "resolved",
               !.exact = \A i \in DOMAIN rows :
                            Matches(rows[i], call[c].arg.query)
                                => DOMAIN rows[i] = DOMAIN call[c].arg.query]]
    /\ UNCHANGED <<tableExists, rows, nextId, counters, counters0, nCalls, faults>>

\* new this.Model(model, true) for the document findOne returned, if any.
OneModel(docs) == [i \in DOMAIN docs |-> Model(docs[i], TRUE)]

\* results.forEach(result => result._original = _.cloneDeep(result.data))
WithOriginals(models) == [i \in DOMAIN models |-> [models[i] EXCEPT !.original = models[i].data]]

\* findBy(query) after `await this._ready` (lines 204-213).
FindByDone(c) ==
    /\ call[c].kind = "findBy"
    /\ call[c].pc = "findAwaitReady"
    /\ IF ReadyError(tableExists) # NoErr
       THEN FinderThrow(c, ReadyError(tableExists))
       ELSE FinderReturn(c, OneModel(Limit(Find(rows, call[c].arg.query), 1)))

\* where(query, orderBy) after `await this._ready` (lines 216-229).
WhereDone(c) ==
    /\ call[c].kind = "where"
    /\ call[c].pc = "findAwaitReady"
    /\ LET models == Find(rows, call[c].arg.query)
           orderBy == call[c].arg.orderBy
       IN IF ReadyError(tableExists) # NoErr
          THEN FinderThrow(c, ReadyError(tableExists))
          ELSE IF SortByThrows(models, orderBy)
          THEN FinderThrow(c, TypeError)
          ELSE FinderReturn(c, WithOriginals(DynamicCollection(
                   IF orderBy.kind = "field" /\ orderBy.field # ""
                   THEN SortBy(models, orderBy.field)
                   ELSE models)))

\* all() after `await this._ready` (lines 233-242).
AllDone(c) ==
    /\ call[c].kind = "all"
    /\ call[c].pc = "findAwaitReady"
    /\ IF ReadyError(tableExists) # NoErr
       THEN FinderThrow(c, ReadyError(tableExists))
       ELSE FinderReturn(c, WithOriginals(DynamicCollection(Find(rows, EmptyQuery))))

\* first() and first(n) after `await this._ready` (lines 246-258).
FirstDone(c) ==
    /\ call[c].kind \in {"first", "firstN"}
    /\ call[c].pc = "findAwaitReady"
    /\ IF ReadyError(tableExists) # NoErr
       THEN FinderThrow(c, ReadyError(tableExists))
       ELSE IF call[c].kind = "first"
       THEN FinderReturn(c, OneModel(Limit(Find(rows, EmptyQuery), 1)))
       ELSE FinderReturn(c, DynamicCollection(
                Limit(Find(rows, EmptyQuery), call[c].arg.n)))

\* last() and last(n) after `await this._ready` (lines 262-276).
LastDone(c) ==
    /\ call[c].kind \in {"last", "lastN"}
    /\ call[c].pc = "findAwaitReady"
    /\ IF ReadyError(tableExists) # NoErr
       THEN FinderThrow(c, ReadyError(tableExists))
       ELSE IF call[c].kind = "last"
       THEN FinderReturn(c, OneModel(Limit(Reverse(Find(rows, EmptyQuery)), 1)))
       ELSE FinderReturn(c, DynamicCollection(
                Limit(Reverse(Find(rows, EmptyQuery)), call[c].arg.n)))

\* ------------------------------------------------------------ specification
Next ==
    \/ \E d \in InitDocs : Construct(d)
    \/ \E r \in DOMAIN rec : SaveCall(r)
    \/ \E r \in DOMAIN rec : DestroyCall(r)
    \/ \E c \in DOMAIN call : SaveResume(c)
    \/ \E c \in DOMAIN call : SaveReady(c)
    \/ \E c \in DOMAIN call : ValidateUpdate(c)
    \/ \E c \in DOMAIN call : UpdateDone(c)
    \/ \E c \in DOMAIN call : UpdateFail(c)
    \/ \E c \in DOMAIN call : LookupDone(c)
    \/ \E c \in DOMAIN call : LookupFail(c)
    \/ \E c \in DOMAIN call, col \in SeqCols : IncrementDone(c, col)
    \/ \E c \in DOMAIN call, col \in SeqCols : IncrementFail(c, col)
    \/ \E c \in DOMAIN call : ValidateInsert(c)
    \/ \E c \in DOMAIN call : InsertDone(c)
    \/ \E c \in DOMAIN call : InsertFail(c)
    \/ \E c \in DOMAIN call : CompLookupDone(c)
    \/ \E c \in DOMAIN call : CompLookupFail(c)
    \/ \E c \in DOMAIN call, col \in SeqCols : DecrementDone(c, col)
    \/ \E c \in DOMAIN call, col \in SeqCols : DecrementFail(c, col)
    \/ \E c \in DOMAIN call : DestroyReady(c)
    \/ \E c \in DOMAIN call : DestroyResume(c)
    \/ \E c \in DOMAIN call : DeleteDone(c)
    \/ \E c \in DOMAIN call : DeleteFail(c)

Spec == Init /\ [][Next]_vars

\* New instances of a table with an auto-increment column are saved, the
\* store never fails: saves fail by validation only.
InitSeq ==
    /\ tableExists = TRUE
    /\ counters \in {[c \in SeqCols |-> v] : v \in InitSeqValues}
    /\ InitWith(SeqRecords, SeqRecords, 0)

NextSeq ==
    \/ \E d \in InitDocs : Construct(d)
    \/ \E r \in DOMAIN rec : SaveCall(r)
    \/ \E c \in DOMAIN call : SaveResume(c)
    \/ \E c \in DOMAIN call : SaveReady(c)
    \/ \E c \in DOMAIN call : ValidateUpdate(c)
    \/ \E c \in DOMAIN call : UpdateDone(c)
    \/ \E c \in DOMAIN call : LookupDone(c)
    \/ \E c \in DOMAIN call, col \in SeqCols : IncrementDone(c, col)
    \/ \E c \in DOMAIN call : ValidateInsert(c)
    \/ \E c \in DOMAIN call : InsertDone(c)
    \/ \E c \in DOMAIN call : CompLookupDone(c)
    \/ \E c \in DOMAIN call, col \in SeqCols : DecrementDone(c, col)

SpecSeq == InitSeq /\ [][NextSeq]_vars

\* No call on instance r is in progress.
Quiescent(r) == \A c \in 1..nCalls : call[c].rec = r => Settled(c)

\* Valid instances are constructed, with or without a snapshot, saved, and
\* edited by the caller between their calls (the "string" field is assigned,
\* the sequence field is deleted); the store never fails.
InitRow ==
    /\ tableExists = TRUE
    /\ counters \in {NoDoc} \cup {[c \in SeqCols |-> 0]}
    /\ InitWith(RowRecords, RowCalls, 0)

NextRow ==
    \/ Construct(GoodDoc)
    \/ ConstructPreserved(GoodDoc)
    \/ \E r \in DOMAIN rec, v \in EditValues : Quiescent(r) /\ SetData(r, "string", v)
    \/ \E r \in DOMAIN rec, f \in SeqCols : Quiescent(r) /\ DeleteData(r, f)
    \/ \E r \in DOMAIN rec : SaveCall(r)
    \/ \E c \in DOMAIN call : SaveResume(c)
    \/ \E c \in DOMAIN call : SaveReady(c)
    \/ \E c \in DOMAIN call : ValidateUpdate(c)
    \/ \E c \in DOMAIN call : UpdateDone(c)
    \/ \E c \in DOMAIN call : LookupDone(c)
    \/ \E c \in DOMAIN call, col \in SeqCols : IncrementDone(c, col)
    \/ \E c \in DOMAIN call : ValidateInsert(c)
    \/ \E c \in DOMAIN call : InsertDone(c)

SpecRow == InitRow /\ [][NextRow]_vars

\* A collection of new instances, valid or not, is built and saved with
\* saveAll(); the store fails up to AllFaults operations.
CollectionDocs ==
    UNION {[1..n -> InitDocs] : n \in 1..AllRecords}

InitAll ==
    /\ tableExists = TRUE
    /\ counters \in {NoDoc} \cup {[c \in SeqCols |-> 0]}
    /\ InitWith(AllRecords, AllRecords + 1, AllFaults)

NextAll ==
    \/ \E docs \in CollectionDocs : NewCollection(docs)
    \/ nCalls = 0 /\ SaveAllCall([i \in 1..nRecs |-> i])
    \/ \E c \in DOMAIN call : SaveAllSettle(c)
    \/ \E c \in DOMAIN call : SaveReady(c)
    \/ \E c \in DOMAIN call : LookupDone(c)
    \/ \E c \in DOMAIN call, col \in SeqCols : IncrementDone(c, col)
    \/ \E c \in DOMAIN call : ValidateInsert(c)
    \/ \E c \in DOMAIN call : InsertDone(c)
    \/ \E c \in DOMAIN call : CompLookupDone(c)
    \/ \E c \in DOMAIN call, col \in SeqCols : DecrementDone(c, col)
    \/ \E c \in DOMAIN call : LookupFail(c)
    \/ \E c \in DOMAIN call, col \in SeqCols : IncrementFail(c, col)
    \/ \E c \in DOMAIN call : InsertFail(c)
    \/ \E c \in DOMAIN call : CompLookupFail(c)
    \/ \E c \in DOMAIN call, col \in SeqCols : DecrementFail(c, col)

SpecAll == InitAll /\ [][NextAll]_vars

\* A table that may hold rows already; instances are constructed, saved and
\* destroyed, and every finder is called, one call after the other; the
\* store never fails.
SeqDoc   == [string |-> StrV(1), seq |-> IntV(5)]
FindDocs == {GoodDoc, SeqDoc}

FindTables == UNION {[1..n -> FindDocs] : n \in 0..FindRows}

FindQueries == {EmptyQuery, GoodDoc}

InitFind ==
    /\ tableExists \in BOOLEAN
    /\ \/ counters = NoDoc /\ rows \in FindTables
       \/ counters = [c \in SeqCols |-> 0] /\ rows = <<>>
    /\ nextId = Len(rows) + 1
    /\ counters0 = counters
    /\ nRecs = 0
    /\ rec = [r \in 1..FindRecords |-> NewRec(Null)]
    /\ nCalls = 0
    /\ call = [c \in 1..FindCalls |-> IdleCall]
    /\ faults = 0

\* Every call made so far has settled: the caller awaits each call before
\* it makes the next.
AllSettled == \A c \in 1..nCalls : Settled(c)

NextFind ==
    \/ \E d \in FindDocs : AllSettled /\ Construct(d)
    \/ \E r \in DOMAIN rec : AllSettled /\ SaveCall(r)
    \/ \E r \in DOMAIN rec : AllSettled /\ DestroyCall(r)
    \/ \E q \in FindQueries : AllSettled /\ FindBy(q)
    \/ \E r \in 1..nRecs : AllSettled /\ rec[r].data # Null /\ FindBy(rec[r].data)
    \/ \E q \in FindQueries, ord \in {NoOrder, ByField("seq")} :
           AllSettled /\ Where(q, ord)
    \/ AllSettled /\ All
    \/ AllSettled /\ First
    \/ \E n \in 1..FindRows : AllSettled /\ FirstN(n)
    \/ AllSettled /\ Last
    \/ \E n \in 1..FindRows : AllSettled /\ LastN(n)
    \/ \E c \in DOMAIN call : SaveResume(c)
    \/ \E c \in DOMAIN call : SaveReady(c)
    \/ \E c \in DOMAIN call : ValidateUpdate(c)
    \/ \E c \in DOMAIN call : UpdateDone(c)
    \/ \E c \in DOMAIN call : LookupDone(c)
    \/ \E c \in DOMAIN call, col \in SeqCols : IncrementDone(c, col)
    \/ \E c \in DOMAIN call : ValidateInsert(c)
    \/ \E c \in DOMAIN call : InsertDone(c)
    \/ \E c \in DOMAIN call : DestroyReady(c)
    \/ \E c \in DOMAIN call : DestroyResume(c)
    \/ \E c \in DOMAIN call : DeleteDone(c)
    \/ \E c \in DOMAIN call : FindByDone(c)
    \/ \E c \in DOMAIN call : WhereDone(c)
    \/ \E c \in DOMAIN call : AllDone(c)
    \/ \E c \in DOMAIN call : FirstDone(c)
    \/ \E c \in DOMAIN call : LastDone(c)

SpecFind == InitFind /\ [][NextFind]_vars

\* where() is called on a table that holds any rows of SortDocs in any
\* order, with and without orderBy.
SortDocs == {[string |-> StrV(i), seq |-> IntV(j)] : i, j \in 1..2} \cup {GoodDoc}

SortTables == UNION {[1..n -> SortDocs] : n \in 0..SortRows}

SortQueries == {EmptyQuery, GoodDoc}

SortOrders == {NoOrder, ByField("seq"), ByField("string"), ByComparator("seq")}

InitSort ==
    /\ tableExists = TRUE
    /\ counters = NoDoc
    /\ counters0 = counters
    /\ rows \in SortTables
    /\ nextId = Len(rows) + 1
    /\ nRecs = 0
    /\ rec = [r \in 1..SortRows |-> NewRec(Null)]
    /\ nCalls = 0
    /\ call = [c \in 1..SortCalls |-> IdleCall]
    /\ faults = 0

NextSort ==
    \/ \E q \in SortQueries, ord \in SortOrders : Where(q, ord)
    \/ \E c \in DOMAIN call : WhereDone(c)

SpecSort == InitSort /\ [][NextSort]_vars

\* Valid and invalid instances are constructed, saved, and edited by the
\* caller between their calls: the "string" field is assigned a string or a
\* number.  The caller issues a save() on one instance while no call on
\* another is in flight; the store never fails.
InitInvalid ==
    /\ tableExists = TRUE
    /\ counters \in {NoDoc} \cup {[c \in SeqCols |-> 0]}
    /\ InitWith(InvalidRecords, InvalidCalls, 0)

NextInvalid ==
    \/ \E d \in InitDocs : AllSettled /\ Construct(d)
    \/ \E r \in DOMAIN rec, v \in EditValues \cup BadValues :
           Quiescent(r) /\ SetData(r, "string", v)
    \/ \E r \in DOMAIN rec :
           /\ \A c \in 1..nCalls : Settled(c) \/ call[c].rec = r
           /\ SaveCall(r)
    \/ \E c \in DOMAIN call : SaveResume(c)
    \/ \E c \in DOMAIN call : SaveReady(c)
    \/ \E c \in DOMAIN call : ValidateUpdate(c)
    \/ \E c \in DOMAIN call : UpdateDone(c)
    \/ \E c \in DOMAIN call : LookupDone(c)
    \/ \E c \in DOMAIN call, col \in SeqCols : IncrementDone(c, col)
    \/ \E c \in DOMAIN call : ValidateInsert(c)
    \/ \E c \in DOMAIN call : InsertDone(c)
    \/ \E c \in DOMAIN call : CompLookupDone(c)
    \/ \E c \in DOMAIN call, col \in SeqCols : DecrementDone(c, col)

SpecInvalid == InitInvalid /\ [][NextInvalid]_vars

\* validate(schema) is called on instances built from any object with one
\* field or more among the columns and one more, each holding a string or
\* an integer, in any order of its fields.
CheckFields == DOMAIN Columns \cup {"extra"}

CheckDocs == UNION {[S -> {StrV(1), IntV(1)}] : S \in SUBSET CheckFields \ {{}}}

InitValidate ==
    /\ tableExists = TRUE
    /\ counters = NoDoc
    /\ InitWith(CheckRecords, CheckCalls, 0)

NextValidate ==
    \/ \E d \in CheckDocs : Construct(d)
    \/ \E r \in DOMAIN rec :
           \E keys \in KeyOrders(DOMAIN rec[r].data) :
               ValidateCall(r, SchemaColumns, keys)

SpecValidate == InitValidate /\ [][NextValidate]_vars

\* ------------------------------------------------------------ properties
\* Call c has a store mutation (insert, update, delete, counter increment)
\* in flight.
MutationInFlight(c) ==
    \/ call[c].pc \in {"updating", "inserting", "deleting"}
    \/ call[c].incPending # {}

\* Call c has changed the store.
Mutated(c) == \E i \in DOMAIN rec[call[c].rec].muts : rec[call[c].rec].muts[i] = c

\* C1: at most one store mutation of one instance is in flight at any time,
\* however many save()/destroy() calls overlap.
C1_OneMutationInFlight ==
    \A r \in 1..nRecs :
        Cardinality({c \in CallsOf(r) : MutationInFlight(c)}) <= 1

\* C2: the store mutations of one instance take effect in the order in which
\* the calls were made.
C2_MutationsInCallOrder ==
    \A r \in 1..nRecs :
        \A i, j \in DOMAIN rec[r].muts :
            i < j => rec[r].muts[i] <= rec[r].muts[j]

\* C3: a call made after a failed one still starts its own operation once
\* the failure has settled: no call of an existing table settles without
\* having run its saveData/destroyData.
C3_FailureDoesNotPoison ==
    \A c \in 1..nCalls :
        (tableExists /\ Settled(c)) => call[c].started

\* The sequence values of the committed rows.
CommittedSeqs(col) == {rows[i][col] : i \in {j \in DOMAIN rows : col \in DOMAIN rows[j]}}

\* Every call made so far was a save() and has succeeded.
EverySaveSucceeded ==
    \A c \in 1..nCalls : call[c].kind = "save" /\ call[c].pc = "resolved"

\* C4: when new instances of a table with an auto-increment column are saved
\* concurrently and every save succeeds, the N committed rows carry the N
\* sequence values from the previous counter value + 1 to the previous
\* counter value + N, each once.
C4_SequencesContiguous ==
    (counters # NoDoc /\ EverySaveSucceeded) =>
        LET n == Cardinality(DOMAIN rows)
        IN \A col \in SeqCols :
            /\ \A i \in DOMAIN rows : col \in DOMAIN rows[i]
            /\ CommittedSeqs(col) =
                   {IntV(k) : k \in (counters0[col] + 1)..(counters0[col] + n)}
            /\ Cardinality(CommittedSeqs(col)) = n
            /\ n = Cardinality({r \in 1..nRecs : CallsOf(r) # {}})

\* C4 witness: three instances were saved with their saves overlapping (the
\* instance whose increment came last had its row committed first), and all
\* three succeeded.
C4_Witness ==
    /\ nCalls = 3
    /\ EverySaveSucceeded
    /\ Cardinality(DOMAIN rows) = 3
    /\ \A r \in 1..3 : Cardinality(CallsOf(r)) = 1
    /\ rec[1].id = 1
    /\ \A col \in SeqCols :
          /\ col \in DOMAIN rec[1].data
          /\ rec[1].data[col] = IntV(counters0[col] + 3)

\* C5: no two committed rows carry the same sequence value, also when some
\* saves fail and run their counter compensation.
C5_NoDuplicateSequence ==
    \A col \in SeqCols :
        \A i, j \in DOMAIN rows :
            (i # j /\ col \in DOMAIN rows[i] /\ col \in DOMAIN rows[j])
                => rows[i][col] # rows[j][col]

\* C6: when the save() of a new instance fails and the compensating
\* decrement fails too, save() rejects with the original error.
C6_OriginalErrorSurfaces ==
    \A c \in 1..nCalls :
        (call[c].pc = "rejected" /\ call[c].compErr # NoErr)
            => call[c].err = call[c].origErr

\* C7: after the save() of a new instance has failed and its compensation has
\* completed, no other call having been made, every counter has the value it
\* had before the save.
C7_CountersRestored ==
    ( /\ nCalls = 1
      /\ call[1].kind = "save"
      /\ call[1].pc = "rejected"
      /\ call[1].compErr = NoErr
      /\ call[1].incPending = {} /\ call[1].decPending = {} )
        => counters = counters0

\* C8: a save() or destroy() on a DESTROYED instance fails with
\* AlreadyDestroyed, an error other than NotPersisted, and changes neither
\* the rows nor the counters.
C8_DestroyedFailsAlreadyDestroyed ==
    \A c \in 1..nCalls :
        (tableExists /\ call[c].atCall = "DESTROYED" /\ Settled(c))
            => /\ call[c].pc = "rejected"
               /\ call[c].err = AlreadyDestroyed
               /\ AlreadyDestroyed # NotPersisted
               /\ ~Mutated(c)

\* C9: after a successful save() and a successful destroy() of an instance
\* the store holds no row of that instance, and its data and _original are
\* null.
C9_SaveDestroyRemovesRow ==
    \A c \in 1..nCalls :
        (call[c].kind = "destroy" /\ call[c].pc = "resolved")
            => LET m == rec[call[c].rec]
               IN /\ m.id \notin DOMAIN rows
                  /\ m.data = Null
                  /\ m.original = Null

\* C10: destroy() on an instance in state NEW fails with NotPersisted,
\* deletes no row and leaves the instance in state NEW.
C10_DestroyNewNotPersisted ==
    \A c \in 1..nCalls :
        ( /\ tableExists
          /\ call[c].kind = "destroy"
          /\ call[c].atCall = "NEW"
          /\ Settled(c) )
            => /\ call[c].pc = "rejected"
               /\ call[c].err = NotPersisted
               /\ ~Mutated(c)

\* C11: a save() on an instance that is SAVED (it holds a snapshot in
\* _original) while a row matching that snapshot is in the table updates
\* that row and inserts no second one: the step in which the call resolves
\* leaves the number of rows as it was.
C11_SavedSaveInsertsNoRow ==
    [][\A c \in DOMAIN call :
          ( /\ call[c].kind = "save"
            /\ call[c].atCall = "SAVED"
            /\ call[c].pc # "resolved"
            /\ call'[c].pc = "resolved"
            /\ rec[call[c].rec].original # Null
            /\ \E i \in DOMAIN rows : Matches(rows[i], rec[call[c].rec].original) )
              => Cardinality(DOMAIN rows') = Cardinality(DOMAIN rows)]_vars

\* C12: when a save() on a SAVED instance resolves, the row of the instance
\* equals its data (a changed field is updated, a field deleted from data is
\* absent from the row) and _original equals data.
C12_RowEqualsDataAfterSave ==
    [][\A c \in DOMAIN call :
          ( /\ call[c].kind = "save"
            /\ call[c].atCall = "SAVED"
            /\ call[c].pc # "resolved"
            /\ call'[c].pc = "resolved" )
              => LET m == rec'[call[c].rec]
                 IN /\ m.id \in DOMAIN rows'
                    /\ rows'[m.id] = m.data
                    /\ m.original = m.data]_vars

\* C13: when a save() resolves on an instance whose data is what its last
\* successful save left (data equals the snapshot in _original), the row of
\* the instance equals that snapshot and the number of rows is as it was.
C13_UnchangedSaveKeepsRow ==
    [][\A c \in DOMAIN call :
          LET m == rec[call[c].rec]
          IN ( /\ call[c].kind = "save"
               /\ call[c].pc = "updating"
               /\ call'[c].pc = "resolved"
               /\ m.original # Null
               /\ m.data = m.original
               /\ call[c].arg.set = m.original )
                 => /\ m.id \in DOMAIN rows'
                    /\ rows'[m.id] = m.original
                    /\ Cardinality(DOMAIN rows') = Cardinality(DOMAIN rows)]_vars

\* The part of C13 that does hold: such a save leaves the table as it was.
UnchangedSaveKeepsTable ==
    [][\A c \in DOMAIN call :
          LET m == rec[call[c].rec]
          IN ( /\ call[c].kind = "save"
               /\ call[c].pc = "updating"
               /\ call'[c].pc = "resolved"
               /\ m.original # Null
               /\ m.data = m.original
               /\ call[c].arg.set = m.original )
                 => rows' = rows]_vars

\* The calls of saveAll() and the save() calls it made.
SaveAllCalls == {c \in 1..nCalls : call[c].kind = "saveAll"}

\* The row of instance r holds the data of r.
RowHoldsData(r) ==
    /\ rec[r].id \in DOMAIN rows
    /\ rec[r].data # Null
    /\ rows[rec[r].id] = rec[r].data

\* C14: when saveAll() has resolved on a collection, the save() of every
\* element has resolved, and the table holds for every element a row with
\* the data of that element.
C14_SaveAllCommitsAll ==
    \A c \in SaveAllCalls :
        call[c].pc = "resolved" =>
            \A e \in call[c].arg.elems :
                /\ call[e].pc = "resolved"
                /\ RowHoldsData(call[e].rec)

\* C14 witness: saveAll() has resolved on a collection of two valid
\* elements of a table with a sequence, and two rows are committed.
C14_Witness ==
    /\ counters # NoDoc
    /\ \E c \in SaveAllCalls :
          /\ call[c].pc = "resolved"
          /\ Cardinality(call[c].arg.elems) = 2
    /\ Cardinality(DOMAIN rows) = 2

\* C15: when saveAll() has rejected, a save() of an element has rejected and
\* saveAll() carries the error that save() rejected with; every element
\* whose save() has resolved has its row in the table, then and afterwards.
C15_SaveAllFailsWithElementError ==
    \A c \in SaveAllCalls :
        call[c].pc = "rejected" =>
            /\ call[c].err # NoErr
            /\ \E e \in call[c].arg.elems :
                  /\ call[e].pc = "rejected"
                  /\ call[e].err = call[c].err
            /\ \A e \in call[c].arg.elems :
                  call[e].pc = "resolved" => RowHoldsData(call[e].rec)

\* C15 witness: of two elements one is invalid; saveAll() has rejected with
\* its validation error and the valid element is committed.
C15_Witness ==
    /\ counters # NoDoc
    /\ \E c \in SaveAllCalls :
          /\ call[c].pc = "rejected"
          /\ call[c].err = ValidationError
          /\ Cardinality(call[c].arg.elems) = 2
          /\ Cardinality({e \in call[c].arg.elems : call[e].pc = "rejected"}) = 1
          /\ Cardinality({e \in call[c].arg.elems :
                             call[e].pc = "resolved" /\ RowHoldsData(call[e].rec)}) = 1

\* The findBy(d) calls the claim C16 is about: when findOne ran, an instance
\* that was new, was saved with save() and holds the data d had its row in
\* the table.
FindBySaved == {c \in 1..nCalls : /\ call[c].kind = "findBy"
                                  /\ call[c].pc = "resolved"
                                  /\ call[c].arg.saved}

\* C16 as stated: after new Model(d) was saved, findBy(d) returns a Record
\* whose data equals d, without an _id field in it, with _original equal to
\* data and with its _id set.
C16_FindByReturnsSavedData ==
    \A c \in FindBySaved :
        /\ Len(call[c].arg.models) = 1
        /\ LET m == call[c].arg.models[1]
           IN /\ m.data = call[c].arg.query
              /\ "_id" \notin DOMAIN m.data
              /\ m.original = m.data
              /\ m.id # 0

\* C16 amended: findBy(d) returns the first row that matches d: a Record
\* whose data has every field of d with the value of d, and equals d when no
\* row matching d has fields beyond those of d; its data has no _id field,
\* its _original equals its data and its _id is set.
C16_FindByReturnsMatch ==
    \A c \in FindBySaved :
        /\ Len(call[c].arg.models) = 1
        /\ LET m == call[c].arg.models[1]
           IN /\ Matches(m.data, call[c].arg.query)
              /\ call[c].arg.exact => m.data = call[c].arg.query
              /\ "_id" \notin DOMAIN m.data
              /\ m.original = m.data
              /\ m.id # 0

\* C16 witness: an instance of a table with a sequence was saved and
\* findBy of its data has returned a Record with that data.
C16_Witness ==
    \E c \in FindBySaved :
        /\ counters # NoDoc
        /\ call[c].arg.exact
        /\ Len(call[c].arg.models) = 1
        /\ call[c].arg.models[1].data = call[c].arg.query
        /\ \A col \in SeqCols : col \in DOMAIN call[c].arg.query

\* The pcs of a save() on the insert path.
InsertPath == {"lookup", "incrementing", "validateI", "inserting",
               "compLookup", "decrementing"}

\* The where() and all() calls that have returned.
CollectionsReturned ==
    {c \in 1..nCalls : call[c].kind \in {"where", "all"} /\ call[c].pc = "resolved"}

\* C17: every Record where() or all() returns has _original equal to its
\* data and its _id set, and a save() made on it later is never on the insert
\* path: once resolved it has updated the row.
C17_ReturnedRecordsAreSaved ==
    \A c \in CollectionsReturned :
        /\ \A i \in DOMAIN call[c].arg.models :
              /\ call[c].arg.models[i].original = call[c].arg.models[i].data
              /\ call[c].arg.models[i].id # 0
        /\ \A i \in DOMAIN call[c].arg.recs :
              \A s \in CallsOf(call[c].arg.recs[i]) :
                  call[s].kind = "save" =>
                      /\ call[s].pc \notin InsertPath
                      /\ call[s].pc = "resolved" => Mutated(s)

\* C17 witness: a Record that all() returned was saved, and the table has
\* the one row it had.
C17_Witness ==
    \E c \in CollectionsReturned :
        /\ call[c].kind = "all"
        /\ Len(call[c].arg.recs) = 1
        /\ \E s \in CallsOf(call[c].arg.recs[1]) :
              call[s].kind = "save" /\ call[s].pc = "resolved"
        /\ Cardinality(DOMAIN rows) = 1

\* The ids of the rows of the table that match the query of call c.
MatchingIds(c) == {i \in DOMAIN rows : Matches(rows[i], call[c].arg.query)}

\* The Records call c returned are the rows that match its query, each once.
ReturnsMatchingRows(c) ==
    LET ms == call[c].arg.models
    IN /\ Len(ms) = Cardinality(MatchingIds(c))
       /\ {ms[i].id : i \in DOMAIN ms} = MatchingIds(c)
       /\ \A i \in DOMAIN ms : ms[i].data = rows[ms[i].id]

\* C18: where(query, field) returns the rows that match the query, in
\* ascending order of the field, rows with equal values (or without the
\* field) in store order; where(query) returns them in store order.
C18_WhereSortsByField ==
    \A c \in 1..nCalls :
        ( /\ call[c].kind = "where"
          /\ Settled(c)
          /\ call[c].arg.orderBy.kind \in {"none", "field"} )
            => LET ms == call[c].arg.models
                   f  == call[c].arg.orderBy.field
                   has(i) == f \in DOMAIN ms[i].data
               IN /\ call[c].pc = "resolved"
                  /\ ReturnsMatchingRows(c)
                  /\ \A i, j \in DOMAIN ms :
                        i < j =>
                            IF call[c].arg.orderBy.kind = "none"
                            THEN ms[i].id < ms[j].id
                            ELSE /\ (has(i) /\ has(j))
                                        => ms[i].data[f].val <= ms[j].data[f].val
                                 /\ ( \/ ~has(i) /\ ~has(j)
                                      \/ /\ has(i) /\ has(j)
                                         /\ ms[i].data[f].val = ms[j].data[f].val )
                                        => ms[i].id < ms[j].id

\* C18 witness: where(query, "seq") has returned three rows, two of them
\* with equal values, in an order other than the store's.
C18_Witness ==
    \E c \in 1..nCalls :
        /\ call[c].kind = "where"
        /\ call[c].pc = "resolved"
        /\ call[c].arg.orderBy = ByField("seq")
        /\ Len(call[c].arg.models) = 3
        /\ call[c].arg.models[1].id = 3
        /\ call[c].arg.models[2].id = 1
        /\ \A i \in 1..3 : "seq" \in DOMAIN call[c].arg.models[i].data
        /\ call[c].arg.models[2].data["seq"] = call[c].arg.models[3].data["seq"]

\* C19: where(query, comparator) returns the rows that match the query,
\* ordered as the comparator (a, b) => b[f] - a[f] orders them: it is not
\* positive on any two neighbours.
C19_WhereSortsByComparator ==
    \A c \in 1..nCalls :
        ( /\ call[c].kind = "where"
          /\ Settled(c)
          /\ call[c].arg.orderBy.kind = "comparator" )
            => LET ms == call[c].arg.models
                   f  == call[c].arg.orderBy.field
               IN /\ call[c].pc = "resolved"
                  /\ ReturnsMatchingRows(c)
                  /\ \A i \in DOMAIN ms :
                        (i + 1 \in DOMAIN ms /\ f \in DOMAIN ms[i].data
                                             /\ f \in DOMAIN ms[i + 1].data)
                            => ms[i + 1].data[f].val - ms[i].data[f].val <= 0

\* C20: when the schema registry has no descriptor for the table, every
\* step leaves the rows and the counters as they are, and every call that
\* has settled (findBy, where, all, first, last, save, destroy) has failed
\* with TableNotFound.
C20_NoTableNoOperation ==
    [][ ~tableExists =>
            /\ rows' = rows
            /\ counters' = counters
            /\ nextId' = nextId
            /\ \A c \in 1..nCalls' :
                  Settled(c)' => /\ call'[c].pc = "rejected"
                                 /\ call'[c].err = TableNotFound ]_vars

\* C20 witness: without a descriptor, on a table that holds a row, a save()
\* and a finder have both failed with TableNotFound.
C20_Witness ==
    /\ ~tableExists
    /\ rows # <<>>
    /\ \E c, d \in 1..nCalls :
          /\ call[c].kind = "save"
          /\ call[d].kind \in FinderOps
          /\ call[c].pc = "rejected" /\ call[c].err = TableNotFound
          /\ call[d].pc = "rejected" /\ call[d].err = TableNotFound

\* The object d has a field that is not a column or whose value is not of
\* the column's type.
FailsSchema(d) ==
    \E f \in DOMAIN d : f \notin DOMAIN Columns \/ d[f].type # Columns[f]

\* The save() call c is in progress on an instance whose data fails the
\* schema.
SavingInvalid(c) ==
    /\ call[c].kind = "save"
    /\ ~Settled(c)
    /\ rec[call[c].rec].data # Null
    /\ FailsSchema(rec[call[c].rec].data)

\* C21: while a save() is in progress on an instance whose data fails the
\* schema, no step changes the rows of the table, the _id or the _original
\* of the instance; the call never issues insertOne or updateOne and never
\* resolves, and when it has settled the instance is in the state it was
\* in when save() was called.
C21_InvalidSaveChangesNothing ==
    [][ \A c \in 1..nCalls :
            SavingInvalid(c) =>
                LET r == call[c].rec
                IN /\ rows' = rows
                   /\ rec'[r].id = rec[r].id
                   /\ rec'[r].original = rec[r].original
                   /\ call'[c].pc \notin {"updating", "inserting", "resolved"}
                   /\ Settled(c)' => RecState(rec'[r]) = call[c].atCall ]_vars

\* C21 witness: a save() of a NEW instance and a save() of a SAVED instance
\* whose row is in the table have both failed validation.
C21_Witness ==
    \E c, d \in 1..nCalls :
        /\ call[c].kind = "save" /\ call[d].kind = "save"
        /\ call[c].pc = "rejected" /\ call[c].err = ValidationError
        /\ call[d].pc = "rejected" /\ call[d].err = ValidationError
        /\ call[c].atCall = "NEW"
        /\ call[d].atCall = "SAVED"
        /\ rec[call[d].rec].id \in DOMAIN rows
        /\ FailsSchema(rec[call[d].rec].data)

\* C22: when deleteOne of a destroy() takes effect for an instance with an
\* _id whose row is in the table next to another row with the same field
\* values, the row with that _id is removed and every other row stays as it
\* is.
C22_DestroyRemovesOwnRow ==
    [][ \A c \in 1..nCalls :
            LET id == rec[call[c].rec].id
            IN ( /\ call[c].kind = "destroy"
                 /\ call[c].pc = "deleting"
                 /\ call'[c].pc = "resolved"
                 /\ id \in DOMAIN rows
                 /\ \E i \in DOMAIN rows \ {id} : rows[i] = rows[id] )
                   => /\ id \notin DOMAIN rows'
                      /\ \A i \in DOMAIN rows \ {id} :
                            i \in DOMAIN rows' /\ rows'[i] = rows[i] ]_vars

\* C23: every Record first(n) or last(n) has returned had, when it was
\* returned, an _id and an _original equal to its data, and a destroy()
\* called on such a Record before it was destroyed does not fail.
C23_FirstLastRecordsAreSaved ==
    \A c \in 1..nCalls :
        (call[c].kind \in {"firstN", "lastN"} /\ call[c].pc = "resolved")
            => /\ \A i \in DOMAIN call[c].arg.models :
                     /\ call[c].arg.models[i].id # 0
                     /\ call[c].arg.models[i].original = call[c].arg.models[i].data
               /\ \A d \in 1..nCalls :
                     ( /\ call[d].kind = "destroy"
                       /\ \E i \in DOMAIN call[c].arg.recs :
                             call[c].arg.recs[i] = call[d].rec
                       /\ call[d].atCall = "SAVED"
                       /\ Settled(d) )
                         => call[d].pc = "resolved"

\* The value of every field of d is of the type of its column.
EveryFieldConforms(d) ==
    \A f \in DOMAIN d : f \in DOMAIN Columns /\ d[f].type = Columns[f]

\* C24: a validate(schemaColumns) call that has returned has returned true
\* exactly when every field of data is of the declared type of its column.
C24_ValidateChecksEveryField ==
    \A c \in 1..nCalls :
        (call[c].kind = "validate" /\ call[c].pc = "resolved")
            => (call[c].arg.result <=> EveryFieldConforms(call[c].arg.data))

====
